---- MODULE Spec2Model ----
(***************************************************************************)
(* Model of the Google calendar / task-list synchronisation subsystem of   *)
(* period_cycle_planner.                                                   *)
(*                                                                         *)
(*   SpecBoard   the kanban board's optimistic status changes on Google    *)
(*               tasks (src/src/pages/Index.tsx, useGoogleTasks.ts) over   *)
(*               the PATCH/DELETE/GET task routes of the backend.          *)
(***************************************************************************)
EXTENDS Integers, Sequences, FiniteSets, TLC

VARIABLES
    \* ---- board (browser) and provider task list
    remote,               \* provider's task list: item -> needsAction | completed | deleted
    googleTasks,          \* useGoogleTasks' `tasks` state: item -> todo | done | absent
    tasksError,           \* useGoogleTasks' `error` state is set
    googleTaskOverrides,  \* Index.tsx' override map: item -> status, or none
    moves,                \* handleMoveTask executions awaiting updateTaskStatus, in issue order
    deletes,              \* handleDeleteTask executions awaiting deleteTask, in issue order
    fetches,              \* fetchTasks executions in flight, in issue order
    toasts,               \* number of toast.error calls so far
    userActions,          \* number of user actions (moves, deletes) so far
    pinned,               \* history: item -> its latest status action was a move to
                          \* inProgress, and that move has succeeded
    lastEvent,            \* history: the move that failed in the last step, if one did
    chosen,               \* history: item -> the status of the user's latest status
                          \* action on the item, once that action's mutation succeeded
    settled,              \* history: item -> how the status mutation of the item
                          \* that settled last ended (none has, succeeded, failed)
    \* ---- credential store (backend)
    credentials,          \* prisma.googleCalendarToken: userId -> Credential, or none
    upserts,              \* upsertGoogleTokens executions in progress, in call order
    storePhase,           \* position of the caller exercising the store
    lastUpsert,           \* history: the upsertGoogleTokens execution that ended last
    \* ---- calendar hook (browser) and the provider's calendar and task list
    tz,                   \* the browser's offset from UTC, in ticks
    providerEvents,       \* what GET /events answers: the provider's raw events
    providerTasks,        \* what GET /tasks answers for the window: the raw tasks
    events,               \* useGoogleCalendarEvents' `events` state
    eventsError,          \* useGoogleCalendarEvents' `error` state is set
    eventsFetch,          \* position of fetchEvents
    lastFetch,            \* history: the two responses the last fetchEvents received
    \* ---- backend: executions of the calendar and task routes
    requests,
    unhandled,            \* listener executions whose promise rejected with no handler
    \* ---- backend: OAuth callback
    callbacks,            \* executions of the GET /callback route
    userRows              \* prisma.user: the users that have a row

boardVars == <<remote, googleTasks, tasksError, googleTaskOverrides, moves, deletes,
               fetches, toasts, userActions, pinned, lastEvent, settled,
               chosen>>

storeVars == <<credentials, upserts, storePhase, lastUpsert>>

calendarVars == <<tz, providerEvents, providerTasks, events, eventsError, eventsFetch,
                  lastFetch>>

backendVars == <<requests, unhandled>>
authVars == <<callbacks, userRows>>

vars == <<boardVars, storeVars, calendarVars, backendVars, authVars>>

offBoardVars == <<storeVars, calendarVars, backendVars, authVars>>
offStoreVars == <<boardVars, calendarVars, backendVars, authVars>>
offCalendarVars == <<boardVars, storeVars, backendVars, authVars>>
offBackendVars == <<boardVars, calendarVars, authVars>>
offAuthVars == <<boardVars, calendarVars, backendVars>>

(***************************************************************************)
(* Bounds                                                                  *)
(***************************************************************************)
MaxUserActions == 2

(***************************************************************************)
(* Board: domains                                                          *)
(***************************************************************************)
Items == {"t1", "t2"}
TaskStatus == {"todo", "inProgress", "done"}
NoOverride == "none"
NotListed == "absent"
NoEvent == [type |-> "none"]

\* Index.tsx: removing position k of a list of pending executions
RemoveAt(s, k) == [j \in 1..(Len(s) - 1) |-> IF j < k THEN s[j] ELSE s[j + 1]]

\* useGoogleTasks.ts mapGoogleTaskToTask: provider status -> board status
mapGoogleTaskToTask(providerStatus) ==
    IF providerStatus = "completed" THEN "done" ELSE "todo"

\* mutant of updateTaskStatusBody: the local status is sent as it is
updateTaskStatusBody_asIs(status) == status

\* useGoogleTasks.ts updateTaskStatus: the status put in the PATCH body
updateTaskStatusBody(status) ==
    IF status = "done" THEN "completed" ELSE "needsAction"

\* the provider's two status values, and what a PATCH body may carry as status:
\* a provider value, a local value, anything else or nothing
RemoteStatus == {"needsAction", "completed"}
ReceivedStatus == RemoteStatus \cup TaskStatus \cup {"other", "undefined"}

\* googleCalendar.ts PATCH /tasks/:taskId: normalisation of the received status
normalizedStatus(status) ==
    IF status = "completed" THEN "completed" ELSE "needsAction"

\* Index.tsx boardTasks: status shown for a listed Google task
boardStatus(overrides, tasks, i) ==
    IF overrides[i] # NoOverride THEN overrides[i] ELSE tasks[i]

Visible(i) == boardStatus(googleTaskOverrides, googleTasks, i)

\* mutant of setOverride: the updater builds the map from the one entry
setOverride_replacesMap(overrides, i, next) ==
    [j \in Items |-> IF j = i THEN next ELSE NoOverride]

\* Index.tsx setOverride: keyed replace, or delete when no status is given
setOverride(overrides, i, next) ==
    IF next # NoOverride
        THEN [overrides EXCEPT ![i] = next]
        ELSE [overrides EXCEPT ![i] = NoOverride]

\* a new fetchTasks run, as started by the effect when refreshKey changes
\* (history: overtaken is set once a fetch issued later has landed)
NewFetch(cause) ==
    [pc |-> "sent", result |-> [i \in Items |-> NotListed], cause |-> cause,
     overtaken |-> FALSE]

\* history: the fetches issued before position k have been overtaken
Overtaken(fs, k) ==
    [j \in 1..Len(fs) |-> IF j < k THEN [fs[j] EXCEPT !.overtaken = TRUE] ELSE fs[j]]
NoCause == [item |-> "none", status |-> "none"]

(***************************************************************************)
(* Board: initial state. The page has mounted with a signed-in user: the   *)
(* lists are empty, the override map is empty and the first fetchTasks is  *)
(* in flight. The provider holds any two-valued status for each task.      *)
(***************************************************************************)
InitBoard ==
    /\ remote \in [Items -> {"needsAction", "completed"}]
    /\ googleTasks = [i \in Items |-> NotListed]
    /\ tasksError = FALSE
    /\ googleTaskOverrides = [i \in Items |-> NoOverride]
    /\ moves = <<>>
    /\ deletes = <<>>
    /\ fetches = <<NewFetch(NoCause)>>
    /\ toasts = 0
    /\ userActions = 0
    /\ pinned = [i \in Items |-> FALSE]
    /\ lastEvent = NoEvent
    /\ settled = [i \in Items |-> "none"]
    /\ chosen = [i \in Items |-> "none"]

(***************************************************************************)
(* Board: actions                                                          *)
(***************************************************************************)

\* history: the pending moves of item i are no longer its latest status action
Superseded(ms, i) ==
    [j \in 1..Len(ms) |-> IF ms[j].item = i THEN [ms[j] EXCEPT !.latest = FALSE] ELSE ms[j]]

\* Index.tsx handleMoveTask, up to the await of updateTaskStatus: the drop of a
\* listed Google task on a column.
handleMoveTask(i, status) ==
    /\ userActions < MaxUserActions
    /\ googleTasks[i] # NotListed
    /\ LET previousStatus ==
               IF googleTaskOverrides[i] # NoOverride
                   THEN googleTaskOverrides[i] ELSE googleTasks[i]
           taskStatus == IF status = "inProgress" THEN "inProgress"
                         ELSE IF status = "done" THEN "done" ELSE "todo"
           sent == IF status = "inProgress" THEN "todo" ELSE taskStatus
       IN  /\ googleTaskOverrides' = setOverride(googleTaskOverrides, i, taskStatus)
           /\ moves' = Append(Superseded(moves, i),
                  [item |-> i, status |-> status, previousStatus |-> previousStatus,
                   body |-> updateTaskStatusBody(sent), pc |-> "sent",
                   visibleBefore |-> Visible(i), latest |-> TRUE])
    /\ fetches' = [j \in 1..Len(fetches) |->
                      IF fetches[j].cause.item = i
                          THEN [fetches[j] EXCEPT !.cause = NoCause] ELSE fetches[j]]
    /\ userActions' = userActions + 1
    /\ pinned' = [pinned EXCEPT ![i] = FALSE]
    /\ lastEvent' = NoEvent
    /\ UNCHANGED offBoardVars
    /\ UNCHANGED <<settled, remote, googleTasks, tasksError, deletes, toasts>>
    /\ chosen' = [chosen EXCEPT ![i] = "none"]

\* googleCalendar.ts PATCH /tasks/:taskId reaching the provider: the patch is
\* applied, or the route answers with an error (provider or network failure,
\* or the task no longer exists).
PatchTaskRoute(k) ==
    /\ k \in 1..Len(moves)
    /\ moves[k].pc = "sent"
    /\ \/ /\ remote[moves[k].item] # "deleted"
          /\ remote' = [remote EXCEPT ![moves[k].item] = normalizedStatus(moves[k].body)]
          /\ moves' = [moves EXCEPT ![k].pc = "ok"]
       \/ /\ moves' = [moves EXCEPT ![k].pc = "failed"]
          /\ UNCHANGED remote
    /\ lastEvent' = NoEvent
    /\ UNCHANGED offBoardVars
    /\ UNCHANGED <<chosen, settled, googleTasks, tasksError, googleTaskOverrides, deletes, fetches,
                   toasts, userActions, pinned>>

\* handleMoveTask after a resolved updateTaskStatus (Index.tsx 97-99 and 110-113,
\* with useGoogleTasks.ts 91): the refresh starts a new fetchTasks; a done/todo
\* move clears the override in the same turn, an inProgress move keeps it.
MoveSucceeded(k) ==
    /\ k \in 1..Len(moves)
    /\ moves[k].pc = "ok"
    /\ LET m == moves[k]
       IN  /\ googleTaskOverrides' =
                  IF m.status = "inProgress"
                      THEN googleTaskOverrides
                      ELSE setOverride(googleTaskOverrides, m.item, NoOverride)
           /\ fetches' = Append(fetches,
                  NewFetch(IF m.latest /\ m.status # "inProgress"
                               THEN [item |-> m.item, status |-> m.status]
                               ELSE NoCause))
           /\ pinned' = [pinned EXCEPT ![m.item] = @ \/ (m.latest /\ m.status = "inProgress")]
    /\ lastEvent' = NoEvent
    /\ moves' = RemoveAt(moves, k)
    /\ settled' = [settled EXCEPT ![moves[k].item] = "succeeded"]
    /\ chosen' = IF moves[k].latest
                     THEN [chosen EXCEPT ![moves[k].item] = moves[k].status]
                     ELSE chosen
    /\ tasksError' = FALSE
    /\ UNCHANGED offBoardVars
    /\ UNCHANGED <<remote, googleTasks, deletes, toasts, userActions>>

\* mutant of MoveFailedRollback: the catch clears the override
MoveFailedRollback_clears(m) == setOverride(googleTaskOverrides, m.item, NoOverride)

\* handleMoveTask's catch (Index.tsx 100-103 and 114-117): the override is
\* replaced with the status captured before the mutation
MoveFailedRollback(m) == setOverride(googleTaskOverrides, m.item, m.previousStatus)

MoveFailed(k) ==
    /\ k \in 1..Len(moves)
    /\ moves[k].pc = "failed"
    /\ LET m == moves[k]
       IN  /\ googleTaskOverrides' = MoveFailedRollback(m)
           /\ lastEvent' = [type |-> "moveFailed", item |-> m.item,
                            previousStatus |-> m.previousStatus,
                            visibleBefore |-> m.visibleBefore,
                            toastsBefore |-> toasts]
    /\ settled' = [settled EXCEPT ![moves[k].item] = "failed"]
    /\ UNCHANGED chosen
    /\ toasts' = toasts + 1
    /\ moves' = RemoveAt(moves, k)
    /\ UNCHANGED offBoardVars
    /\ UNCHANGED <<remote, googleTasks, tasksError, deletes, fetches, userActions,
                   pinned>>

\* mutant of TasksWhileDeleting: the task is taken off the list at once
TasksWhileDeleting_optimistic(tasks, i) == [tasks EXCEPT ![i] = NotListed]

\* the list while the delete is pending: handleDeleteTask removes nothing
\* locally, the task goes when the re-fetch after a success lands
TasksWhileDeleting(tasks, i) == tasks

\* Index.tsx handleDeleteTask, up to the pending deleteGoogleTask promise
handleDeleteTask(i) ==
    /\ userActions < MaxUserActions
    /\ googleTasks[i] # NotListed
    /\ deletes' = Append(deletes, [item |-> i, pc |-> "sent"])
    /\ googleTasks' = TasksWhileDeleting(googleTasks, i)
    /\ userActions' = userActions + 1
    /\ lastEvent' = NoEvent
    /\ UNCHANGED offBoardVars
    /\ UNCHANGED <<chosen, settled, remote, tasksError, googleTaskOverrides, moves, fetches,
                   toasts, pinned>>

\* googleCalendar.ts DELETE /tasks/:taskId reaching the provider
DeleteTaskRoute(k) ==
    /\ k \in 1..Len(deletes)
    /\ deletes[k].pc = "sent"
    /\ \/ /\ remote[deletes[k].item] # "deleted"
          /\ remote' = [remote EXCEPT ![deletes[k].item] = "deleted"]
          /\ deletes' = [deletes EXCEPT ![k].pc = "ok"]
       \/ /\ deletes' = [deletes EXCEPT ![k].pc = "failed"]
          /\ UNCHANGED remote
    /\ lastEvent' = NoEvent
    /\ UNCHANGED offBoardVars
    /\ UNCHANGED <<chosen, settled, googleTasks, tasksError, googleTaskOverrides, moves, fetches, toasts,
                   userActions, pinned>>

\* handleDeleteTask's then (Index.tsx 128-131, with useGoogleTasks.ts 146)
DeleteSucceeded(k) ==
    /\ k \in 1..Len(deletes)
    /\ deletes[k].pc = "ok"
    /\ fetches' = Append(fetches, NewFetch(NoCause))
    /\ deletes' = RemoveAt(deletes, k)
    /\ tasksError' = FALSE
    /\ lastEvent' = NoEvent
    /\ UNCHANGED offBoardVars
    /\ UNCHANGED <<chosen, settled, remote, googleTasks, googleTaskOverrides, moves, toasts, userActions,
                   pinned>>

\* handleDeleteTask's catch (Index.tsx 132-134)
DeleteFailed(k) ==
    /\ k \in 1..Len(deletes)
    /\ deletes[k].pc = "failed"
    /\ toasts' = toasts + 1
    /\ deletes' = RemoveAt(deletes, k)
    /\ lastEvent' = [type |-> "deleteFailed", item |-> deletes[k].item]
    /\ UNCHANGED offBoardVars
    /\ UNCHANGED <<chosen, settled, remote, googleTasks, tasksError, googleTaskOverrides, moves, fetches,
                   userActions, pinned>>

\* googleCalendar.ts GET /tasks reaching the provider: the route answers with
\* the provider's list as it is now, or with an error.
ListTasksRoute(k) ==
    /\ k \in 1..Len(fetches)
    /\ fetches[k].pc = "sent"
    /\ \/ fetches' = [fetches EXCEPT ![k].pc = "ok",
                         ![k].result = [i \in Items |->
                             IF remote[i] = "deleted" THEN NotListed
                             ELSE mapGoogleTaskToTask(remote[i])]]
       \/ fetches' = [fetches EXCEPT ![k].pc = "failed"]
    /\ lastEvent' = NoEvent
    /\ UNCHANGED offBoardVars
    /\ UNCHANGED <<chosen, settled, remote, googleTasks, tasksError, googleTaskOverrides, moves, deletes,
                   toasts, userActions, pinned>>

\* useGoogleTasks.ts fetchTasks, after the response: setTasks(mapped), or in the
\* catch setTasks([]) and setError.
fetchTasksLanded(k) ==
    /\ k \in 1..Len(fetches)
    /\ fetches[k].pc \in {"ok", "failed"}
    /\ IF fetches[k].pc = "ok"
          THEN /\ googleTasks' = fetches[k].result
               /\ UNCHANGED tasksError
          ELSE /\ googleTasks' = [i \in Items |-> NotListed]
               /\ tasksError' = TRUE
    /\ fetches' = RemoveAt(Overtaken(fetches, k), k)
    /\ lastEvent' = NoEvent
    /\ UNCHANGED offBoardVars
    /\ UNCHANGED <<chosen, settled, remote, googleTaskOverrides, moves, deletes, toasts, userActions,
                   pinned>>

NextBoard ==
    \/ \E i \in Items, s \in TaskStatus : handleMoveTask(i, s)
    \/ \E k \in DOMAIN moves : PatchTaskRoute(k)
    \/ \E k \in DOMAIN moves : MoveSucceeded(k)
    \/ \E k \in DOMAIN moves : MoveFailed(k)
    \/ \E i \in Items : handleDeleteTask(i)
    \/ \E k \in DOMAIN deletes : DeleteTaskRoute(k)
    \/ \E k \in DOMAIN deletes : DeleteSucceeded(k)
    \/ \E k \in DOMAIN deletes : DeleteFailed(k)
    \/ \E k \in DOMAIN fetches : ListTasksRoute(k)
    \/ \E k \in DOMAIN fetches : fetchTasksLanded(k)



(***************************************************************************)
(* Credential store: domains                                               *)
(*                                                                         *)
(* A token response (google-auth-library Credentials) has five fields the  *)
(* store reads; each is absent (undefined or null) or carries a value. The *)
(* values of one response are those of one issue g in 1..MaxIssue. The     *)
(* provider issues no empty access token and no zero expiry date, so the   *)
(* falsy values "" and 0 are not drawn.                                    *)
(***************************************************************************)
MaxIssue == 2

Users == {"u1", "u2"}
Absent == -1
Issues == 1..MaxIssue
NoCredential == [userId |-> "none"]
NoUpsert == [outcome |-> "none"]

Present(issue, flag) == IF flag THEN issue ELSE Absent

TokenResponses ==
    { [access_token  |-> Present(g, a), refresh_token |-> Present(g, r),
       scope         |-> Present(g, s), token_type    |-> Present(g, t),
       expiry_date   |-> Present(g, e)] :
         g \in Issues, a \in BOOLEAN, r \in BOOLEAN, s \in BOOLEAN, t \in BOOLEAN,
         e \in BOOLEAN }

\* the rows prisma.googleCalendarToken can hold for user u
StoredCredentials(u) ==
    { [userId |-> u, accessToken |-> a, refreshToken |-> r, scope |-> s,
       tokenType |-> t, expiryDate |-> e] :
         a \in Issues, r \in Issues \cup {Absent}, s \in Issues \cup {Absent},
         t \in Issues \cup {Absent}, e \in Issues \cup {Absent} }

\* JavaScript: a ?? b
Coalesce(a, b) == IF a # Absent THEN a ELSE b
\* JavaScript truthiness of a string or number that may be absent
Truthy(a) == a # Absent /\ a # 0

\* existing?.field
FieldOf(existing, field) ==
    IF existing = NoCredential THEN Absent ELSE existing[field]

\* mutant of buildTokenUpdate: the refresh token is taken from the response alone
buildTokenUpdate_dropsRefresh(existing, tokens) ==
    LET accessToken == Coalesce(tokens.access_token, FieldOf(existing, "accessToken"))
    IN  IF ~Truthy(accessToken)
            THEN [throws |-> TRUE]
            ELSE [throws       |-> FALSE,
                  accessToken  |-> accessToken,
                  refreshToken |-> tokens.refresh_token,
                  scope        |-> Coalesce(tokens.scope, FieldOf(existing, "scope")),
                  tokenType    |-> Coalesce(tokens.token_type, FieldOf(existing, "tokenType")),
                  expiryDate   |-> IF Truthy(tokens.expiry_date)
                                       THEN tokens.expiry_date
                                       ELSE FieldOf(existing, "expiryDate")]

\* mutant of buildTokenUpdate: a response without access token is accepted
buildTokenUpdate_noThrow(existing, tokens) ==
    [throws       |-> FALSE,
     accessToken  |-> IF Truthy(Coalesce(tokens.access_token, FieldOf(existing, "accessToken")))
                          THEN Coalesce(tokens.access_token, FieldOf(existing, "accessToken"))
                          ELSE 0,
     refreshToken |-> Coalesce(tokens.refresh_token, FieldOf(existing, "refreshToken")),
     scope        |-> Coalesce(tokens.scope, FieldOf(existing, "scope")),
     tokenType    |-> Coalesce(tokens.token_type, FieldOf(existing, "tokenType")),
     expiryDate   |-> IF Truthy(tokens.expiry_date)
                          THEN tokens.expiry_date
                          ELSE FieldOf(existing, "expiryDate")]

\* mutant of buildTokenUpdate: a missing refresh token falls back to the stored
\* access token
buildTokenUpdate_mixesFields(existing, tokens) ==
    LET accessToken == Coalesce(tokens.access_token, FieldOf(existing, "accessToken"))
    IN  IF ~Truthy(accessToken)
            THEN [throws |-> TRUE]
            ELSE [throws       |-> FALSE,
                  accessToken  |-> accessToken,
                  refreshToken |-> Coalesce(tokens.refresh_token,
                                            FieldOf(existing, "accessToken")),
                  scope        |-> Coalesce(tokens.scope, FieldOf(existing, "scope")),
                  tokenType    |-> Coalesce(tokens.token_type, FieldOf(existing, "tokenType")),
                  expiryDate   |-> IF Truthy(tokens.expiry_date)
                                       THEN tokens.expiry_date
                                       ELSE FieldOf(existing, "expiryDate")]

\* services/google.ts buildTokenUpdate: the merged row, or the throw of
\* "Missing access token from Google"
buildTokenUpdate(existing, tokens) ==
    LET accessToken == Coalesce(tokens.access_token, FieldOf(existing, "accessToken"))
    IN  IF ~Truthy(accessToken)
            THEN [throws |-> TRUE]
            ELSE [throws       |-> FALSE,
                  accessToken  |-> accessToken,
                  refreshToken |-> Coalesce(tokens.refresh_token,
                                            FieldOf(existing, "refreshToken")),
                  scope        |-> Coalesce(tokens.scope, FieldOf(existing, "scope")),
                  tokenType    |-> Coalesce(tokens.token_type, FieldOf(existing, "tokenType")),
                  expiryDate   |-> IF Truthy(tokens.expiry_date)
                                       THEN tokens.expiry_date
                                       ELSE FieldOf(existing, "expiryDate")]

\* the row prisma's upsert leaves for userId: create {userId, ...update} or update
UpsertedRow(userId, update) ==
    [userId |-> userId, accessToken |-> update.accessToken,
     refreshToken |-> update.refreshToken, scope |-> update.scope,
     tokenType |-> update.tokenType, expiryDate |-> update.expiryDate]

\* a call of upsertGoogleTokens(userId, tokens): the findUnique is on its way
NewUpsert(userId, tokens, origin) ==
    [userId |-> userId, tokens |-> tokens, origin |-> origin, pc |-> "find",
     existing |-> NoCredential, update |-> [throws |-> FALSE]]

(***************************************************************************)
(* Credential store: actions                                               *)
(***************************************************************************)

\* upsertGoogleTokens, lines 32-33: findUnique resolves and buildTokenUpdate
\* runs; a throw rejects the call before anything is written.
UpsertFind(k) ==
    /\ k \in 1..Len(upserts)
    /\ upserts[k].pc = "find"
    /\ LET c == upserts[k]
           existing == credentials[c.userId]
           update == buildTokenUpdate(existing, c.tokens)
       IN  IF update.throws
               THEN /\ upserts' = RemoveAt(upserts, k)
                    /\ lastUpsert' = [outcome |-> "threw", userId |-> c.userId,
                                      tokens |-> c.tokens, existing |-> existing,
                                      before |-> credentials]
               ELSE /\ upserts' = [upserts EXCEPT ![k].pc = "write",
                                                  ![k].existing = existing,
                                                  ![k].update = update]
                    /\ UNCHANGED lastUpsert
    /\ UNCHANGED <<credentials, storePhase>>
    /\ UNCHANGED offStoreVars

\* upsertGoogleTokens, lines 35-42: prisma's upsert writes the row
UpsertWrite(k) ==
    /\ k \in 1..Len(upserts)
    /\ upserts[k].pc = "write"
    /\ LET c == upserts[k]
       IN  /\ credentials' = [credentials EXCEPT ![c.userId] = UpsertedRow(c.userId, c.update)]
           /\ lastUpsert' = [outcome |-> "written", userId |-> c.userId,
                             tokens |-> c.tokens, existing |-> c.existing,
                             before |-> credentials]
    /\ upserts' = RemoveAt(upserts, k)
    /\ UNCHANGED storePhase
    /\ UNCHANGED offStoreVars

\* a caller of the store: upsert(userId, tokenResponse) on any stored state
StoreUpsert(u, tokens) ==
    /\ storePhase = "fresh"
    /\ upserts = <<>>
    /\ upserts' = <<NewUpsert(u, tokens, "store")>>
    /\ storePhase' = "first"
    /\ UNCHANGED <<credentials, lastUpsert>>
    /\ UNCHANGED offStoreVars

\* the same caller repeating its call with identical input
StoreUpsertAgain ==
    /\ storePhase = "first"
    /\ upserts = <<>>
    /\ lastUpsert # NoUpsert
    /\ upserts' = <<NewUpsert(lastUpsert.userId, lastUpsert.tokens, "store")>>
    /\ storePhase' = "again"
    /\ UNCHANGED <<credentials, lastUpsert>>
    /\ UNCHANGED offStoreVars

\* the rows the store may hold when it is called: any row, or none, for u1,
\* the user of the calls, and no row or a full row for the bystander u2
FullResponse(g) ==
    [access_token |-> g, refresh_token |-> g, scope |-> g, token_type |-> g,
     expiry_date |-> g]

InitStore ==
    /\ \E a \in StoredCredentials("u1") \cup {NoCredential},
          b \in {NoCredential,
                 UpsertedRow("u2", buildTokenUpdate(NoCredential, FullResponse(1)))} :
           credentials = [u \in Users |-> IF u = "u1" THEN a ELSE b]
    /\ upserts = <<>>
    /\ storePhase = "fresh"
    /\ lastUpsert = NoUpsert

\* the board as the store specification leaves it: nothing mounted
IdleBoard ==
    /\ remote = [i \in Items |-> "needsAction"]
    /\ googleTasks = [i \in Items |-> NotListed]
    /\ tasksError = FALSE
    /\ googleTaskOverrides = [i \in Items |-> NoOverride]
    /\ moves = <<>>
    /\ deletes = <<>>
    /\ fetches = <<>>
    /\ toasts = 0
    /\ userActions = 0
    /\ pinned = [i \in Items |-> FALSE]
    /\ lastEvent = NoEvent
    /\ settled = [i \in Items |-> "none"]
    /\ chosen = [i \in Items |-> "none"]

NextStore ==
    \/ \E tokens \in TokenResponses : StoreUpsert("u1", tokens)
    \/ StoreUpsertAgain
    \/ \E k \in DOMAIN upserts : UpsertFind(k)
    \/ \E k \in DOMAIN upserts : UpsertWrite(k)

\* the store as the board specification leaves it: empty and idle
IdleStore ==
    /\ credentials = [u \in Users |-> NoCredential]
    /\ upserts = <<>>
    /\ storePhase = "off"
    /\ lastUpsert = NoUpsert

(***************************************************************************)
(* Calendar hook: time and strings                                         *)
(*                                                                         *)
(* An instant (a JavaScript Date) is a number of ticks since the epoch, in *)
(* UTC; a day has TicksPerDay ticks and the last tick of a day stands for  *)
(* 23:59:59.999. A calendar date is a day number. The browser's local time *)
(* is UTC + tz ticks. A provider date value is a string: YYYY-MM-DD (kind  *)
(* "date") or an RFC 3339 timestamp (kind "dateTime": date, time of day,   *)
(* fraction, zone), or is missing.                                         *)
(***************************************************************************)
MaxDay == 2
MaxTasks == 2
TicksPerDay == 4

Days == 1..MaxDay
TimeZones == {-1, 0, 1}
Zones == {"Z", "+00:00", "+east"}
Fractions == {"", ".000"}
NoValue == [kind |-> "none"]
NoItem == [id |-> "null"]

DateOnly(d) == [kind |-> "date", day |-> d]
DateTime(d, tick, frac, zone) ==
    [kind |-> "dateTime", day |-> d, tick |-> tick, frac |-> frac, zone |-> zone]

\* the offset an RFC 3339 zone suffix stands for, in ticks
ZoneOffset(zone) == IF zone = "+east" THEN 1 ELSE 0

\* new Date(year, month - 1, day): local midnight of a calendar date
LocalMidnight(d) == d * TicksPerDay - tz
\* new Date(value) of an RFC 3339 timestamp
ParseTimestamp(v) == v.day * TicksPerDay + v.tick - ZoneOffset(v.zone)
\* date-fns startOfDay, endOfDay, addDays (local time)
startOfDay(t) == ((t + tz) \div TicksPerDay) * TicksPerDay - tz
endOfDay(t) == startOfDay(t) + TicksPerDay - 1
addDays(t, n) == t + n * TicksPerDay
\* Date.prototype.toISOString().slice(0, 10): the UTC calendar date, as text
ISODate(t) == ToString(t \div TicksPerDay)

\* String.prototype.trim and toLowerCase on a title, a sequence of characters
RECURSIVE TrimStart(_)
TrimStart(s) == IF s # <<>> /\ Head(s) = " " THEN TrimStart(Tail(s)) ELSE s
RECURSIVE TrimEnd(_)
TrimEnd(s) ==
    IF s # <<>> /\ s[Len(s)] = " " THEN TrimEnd(SubSeq(s, 1, Len(s) - 1)) ELSE s
Trim(s) == TrimEnd(TrimStart(s))
LowerChar(c) ==
    CASE c = "A" -> "a"
      [] c = "B" -> "b"
      [] c = "(Untitled event)" -> "(untitled event)"
      [] c = "(Untitled task)" -> "(untitled task)"
      [] OTHER -> c
ToLowerCase(s) == [j \in DOMAIN s |-> LowerChar(s[j])]

\* Array.prototype.filter(Boolean) on the mapped items
FilterBoolean(list) == SelectSeq(list, LAMBDA x : x # NoItem)

(***************************************************************************)
(* Calendar hook: useGoogleCalendarEvents                                  *)
(***************************************************************************)
isDateOnly(value) == value.kind = "date"

\* mutant of parseGoogleDate: the exclusive end date is not moved back a day
parseGoogleDate_keepsEnd(value, isEnd) ==
    IF isDateOnly(value)
        THEN IF isEnd THEN endOfDay(LocalMidnight(value.day))
                      ELSE startOfDay(LocalMidnight(value.day))
        ELSE ParseTimestamp(value)

parseGoogleDate(value, isEnd) ==
    IF isDateOnly(value)
        THEN LET date == LocalMidnight(value.day)
             IN  IF isEnd THEN endOfDay(addDays(date, -1)) ELSE startOfDay(date)
        ELSE ParseTimestamp(value)

\* mutant of normalizeTaskDue: a midnight-UTC timestamp is left as it is
normalizeTaskDue_asIs(value) == value

\* /T00:00:00(?:\.000)?Z$/ matches: the date part is kept
normalizeTaskDue(value) ==
    IF /\ value.kind = "dateTime"
       /\ value.tick = 0
       /\ value.frac \in {"", ".000"}
       /\ value.zone = "Z"
        THEN DateOnly(value.day)
        ELSE value

getTaskDateRange(value) ==
    LET normalized == normalizeTaskDue(value)
    IN  IF isDateOnly(normalized)
            THEN LET date == LocalMidnight(normalized.day)
                 IN  [start |-> startOfDay(date), end |-> endOfDay(date)]
            ELSE LET dateTime == ParseTimestamp(normalized)
                 IN  [start |-> dateTime, end |-> dateTime]

\* useGoogleTasks.ts parseTaskDueDate (the same code as getTaskDateRange)
parseTaskDueDate(value) ==
    LET normalized == normalizeTaskDue(value)
    IN  IF isDateOnly(normalized)
            THEN LET date == LocalMidnight(normalized.day)
                 IN  [start |-> startOfDay(date), end |-> endOfDay(date)]
            ELSE LET dateTime == ParseTimestamp(normalized)
                 IN  [start |-> dateTime, end |-> dateTime]

mapGoogleEvent(event) ==
    LET startValue == IF event.start.dateTime # NoValue
                          THEN event.start.dateTime ELSE event.start.date
        endValue == IF event.end.dateTime # NoValue
                        THEN event.end.dateTime ELSE event.end.date
    IN  IF startValue = NoValue
            THEN NoItem
            ELSE LET start == parseGoogleDate(startValue, FALSE)
                 IN  [id |-> event.id,
                      title |-> IF event.summary # <<>> THEN event.summary
                                ELSE <<"(Untitled event)">>,
                      start |-> start,
                      end |-> IF endValue # NoValue
                                  THEN parseGoogleDate(endValue, TRUE) ELSE start,
                      source |-> "google",
                      completed |-> "undefined"]

mapGoogleTask(task) ==
    IF task.due = NoValue
        THEN NoItem
        ELSE LET range == getTaskDateRange(task.due)
             IN  [id |-> "task-" \o task.id,
                  title |-> IF task.title # <<>> THEN task.title
                            ELSE <<"(Untitled task)">>,
                  start |-> range.start,
                  end |-> range.end,
                  source |-> "google-task",
                  completed |-> IF task.status = "completed" THEN "true" ELSE "false"]

\* eventItems.map(mapGoogleEvent).filter(Boolean), taskItems.map(mapGoogleTask)...
MappedEvents(eventItems) ==
    FilterBoolean([j \in DOMAIN eventItems |-> mapGoogleEvent(eventItems[j])])
MappedTasks(taskItems) ==
    FilterBoolean([j \in DOMAIN taskItems |-> mapGoogleTask(taskItems[j])])

\* mutant of createDedupKey: the title is used as written
createDedupKey_rawTitle(event) == <<ISODate(event.start), ":", ":">> \o event.title

createDedupKey(event) ==
    LET dateKey == ISODate(event.start)
        titleKey == ToLowerCase(Trim(event.title))
    IN  <<dateKey, ":", ":">> \o titleKey

\* mutant of dedupeEvents: the source of an item is not looked at
dedupeEvents_anySource(list) ==
    LET taskKeys == {createDedupKey(list[j]) :
                        j \in {n \in DOMAIN list : list[n].source = "google-task"}}
    IN  SelectSeq(list, LAMBDA event : createDedupKey(event) \notin taskKeys)

dedupeEvents(list) ==
    LET taskKeys == {createDedupKey(list[j]) :
                        j \in {n \in DOMAIN list : list[n].source = "google-task"}}
    IN  SelectSeq(list, LAMBDA event :
            IF event.source = "google-task" THEN TRUE
            ELSE IF event.source # "google" THEN TRUE
            ELSE createDedupKey(event) \notin taskKeys)

\* mutant of getEventsForDate: containment in the day instead of overlap
getEventsForDate_containment(externalEvents, d) ==
    LET dayStart == startOfDay(LocalMidnight(d))
        dayEnd == endOfDay(LocalMidnight(d))
    IN  SelectSeq(externalEvents, LAMBDA event :
            event.start >= dayStart /\ event.end <= dayEnd)

\* CycleCalendar.tsx getEventsForDate, for the calendar cell of date d
getEventsForDate(externalEvents, d) ==
    LET dayStart == startOfDay(LocalMidnight(d))
        dayEnd == endOfDay(LocalMidnight(d))
    IN  SelectSeq(externalEvents, LAMBDA event :
            event.start <= dayEnd /\ event.end >= dayStart)

\* Array.prototype.sort((a, b) => a.start - b.start): stable, by start
RECURSIVE InsertByStart(_, _)
InsertByStart(sorted, x) ==
    IF sorted = <<>> THEN <<x>>
    ELSE IF Head(sorted).start <= x.start
        THEN <<Head(sorted)>> \o InsertByStart(Tail(sorted), x)
        ELSE <<x>> \o sorted
RECURSIVE SortByStart(_)
SortByStart(list) ==
    IF list = <<>> THEN <<>>
    ELSE InsertByStart(SortByStart(SubSeq(list, 1, Len(list) - 1)), list[Len(list)])

\* Index.tsx upcomingEvents, rendered at the instant now
UpcomingDays == 7

upcomingEvents(googleEvents, now) ==
    LET start == now
        end == endOfDay(addDays(start, UpcomingDays))
    IN  SortByStart(SelectSeq(googleEvents, LAMBDA event :
            event.start <= end /\ event.end >= start))

(***************************************************************************)
(* Calendar hook: what the provider may hold                               *)
(***************************************************************************)
RawEvent(id, summary, startDateTime, startDate, endDateTime, endDate) ==
    [id |-> id, summary |-> summary,
     start |-> [dateTime |-> startDateTime, date |-> startDate],
     end |-> [dateTime |-> endDateTime, date |-> endDate]]

RawTask(id, title, due, status) ==
    [id |-> id, title |-> title, due |-> due, status |-> status]

\* all-day events: inclusive start date S, exclusive end date E
AllDayEvents(summaries) ==
    { RawEvent("e1", t, NoValue, DateOnly(S), NoValue, DateOnly(E)) :
        t \in summaries, S \in Days, E \in 1..(MaxDay + 2) }

\* timed events, with an end a whole number of days after the start, or none
TimedEvents(summaries, zones, lengths) ==
    { RawEvent("e1", t, DateTime(d, tick, "", z), NoValue,
               IF n < 0 THEN NoValue ELSE DateTime(d + n, tick, "", z), NoValue) :
        t \in summaries, d \in Days, tick \in {0, TicksPerDay - 1}, z \in zones,
        n \in lengths }

\* one raw item of any shape, alone
AnyEvents ==
    {e \in AllDayEvents({<<>>, <<"a">>}) : e.end.date.day >= e.start.date.day}
    \cup TimedEvents({<<>>, <<"a">>}, Zones, {-1, 0, 1})
    \cup {RawEvent("e1", <<"a">>, NoValue, NoValue, NoValue, NoValue)}

DueValues ==
    {NoValue} \cup {DateOnly(d) : d \in Days}
    \cup {DateTime(d, tick, frac, z) :
            d \in Days, tick \in {0, 1}, frac \in Fractions, z \in Zones}

AnyTasks ==
    { RawTask("k1", t, due, st) :
        t \in {<<>>, <<"a">>}, due \in DueValues, st \in {"needsAction", "completed"} }

\* lists of look-alikes: tasks as the provider encodes them, one-day all-day
\* events and timed events, with titles equal up to case and blanks, or not
LookAlikeTitles == {<<"a">>, <<" ", "A">>, <<"b">>}

TaskId(n) == "k" \o ToString(n)

LookAlikeTaskLists ==
    UNION { { [n \in 1..len |->
                  RawTask(TaskId(n), pick[n][1], DateTime(pick[n][2], 0, ".000", "Z"),
                          "needsAction")] :
              pick \in [1..len -> LookAlikeTitles \X Days] } : len \in 0..MaxTasks }

LookAlikeEventLists ==
    {<<>>}
    \cup { <<e>> : e \in {a \in AllDayEvents(LookAlikeTitles) :
                             a.end.date.day = a.start.date.day + 1} }
    \cup { <<e>> : e \in TimedEvents(LookAlikeTitles, {"Z"}, {0}) }

InitCalendar ==
    /\ tz \in TimeZones
    /\ \/ /\ providerEvents \in {<<e>> : e \in AnyEvents}
          /\ providerTasks = <<>>
       \/ /\ providerEvents = <<>>
          /\ providerTasks \in {<<t>> : t \in AnyTasks}
       \/ /\ providerEvents \in LookAlikeEventLists
          /\ providerTasks \in LookAlikeTaskLists
    /\ events = <<>>
    /\ eventsError = FALSE
    /\ eventsFetch = "sent"
    /\ lastFetch = [events |-> "none", tasks |-> "none"]

IdleCalendar ==
    /\ tz = 0
    /\ providerEvents = <<>>
    /\ providerTasks = <<>>
    /\ events = <<>>
    /\ eventsError = FALSE
    /\ eventsFetch = "off"
    /\ lastFetch = [events |-> "none", tasks |-> "none"]

(***************************************************************************)
(* Calendar hook: actions                                                  *)
(***************************************************************************)
Responses == {"ok", "error", "rejected"}

\* fetchEvents after Promise.all settles. Each fetch resolved with an ok
\* response, resolved with an error response, or was rejected (network).
fetchEventsLanded(eventsResponse, tasksResponse) ==
    /\ eventsFetch = "sent"
    /\ IF eventsResponse = "rejected" \/ tasksResponse = "rejected"
              \/ eventsResponse # "ok"
          THEN /\ events' = <<>>
               /\ eventsError' = TRUE
          ELSE LET mappedEvents == MappedEvents(providerEvents)
                   mappedTasks == IF tasksResponse = "ok"
                                      THEN MappedTasks(providerTasks)
                                      ELSE <<>>
               IN  /\ events' = dedupeEvents(mappedEvents \o mappedTasks)
                   /\ eventsError' = FALSE
    /\ eventsFetch' = "landed"
    /\ lastFetch' = [events |-> eventsResponse, tasks |-> tasksResponse]
    /\ UNCHANGED <<tz, providerEvents, providerTasks>>
    /\ UNCHANGED offCalendarVars

NextCalendar ==
    \E er \in Responses, tr \in Responses : fetchEventsLanded(er, tr)

(***************************************************************************)
(* Backend: the calendar and task routes and the provider client factory   *)
(***************************************************************************)
\* the executions of GET /events that may overlap
RequestIds == <<"r1", "r2">>

\* the routes of googleCalendarRouter, and those that validate a body
Routes == {"GET /events", "POST /events", "GET /calendars", "GET /tasks",
           "POST /tasks", "PATCH /tasks/:taskId", "DELETE /tasks/:taskId"}
PostRoutes == {"POST /events", "POST /tasks"}
Bodies(route) == IF route \in PostRoutes THEN {"ok", "invalid"} ELSE {"ok"}
SuccessStatus(route) == IF route \in PostRoutes THEN 201 ELSE 200

NoTokens == [access_token |-> Absent, refresh_token |-> Absent, scope |-> Absent,
             token_type |-> Absent, expiry_date |-> Absent]

\* what a request carries: an Authorization bearer token (none, one that does
\* not verify, one without a userId, or one signed for a user) and a userId
\* query parameter (none, or a user)
Bearers == {"none", "invalid", "anonymous"} \cup Users
Queries == {"none"} \cup Users

\* resolveUserId: "throws" when jwt.verify throws, "undefined" when neither
\* source names a user
resolveUserId(req) ==
    IF req.bearer = "invalid" THEN "throws"
    ELSE IF req.bearer \in Users THEN req.bearer
    ELSE IF req.query \in Users THEN req.query
    ELSE "undefined"

\* what the provider answers to a refresh grant: a new access token with its
\* expiry, scope and type, and a new refresh token when it rotates it
RefreshResponses ==
    { [access_token |-> g, refresh_token |-> Present(g, r), scope |-> g,
       token_type |-> g, expiry_date |-> g] : g \in Issues, r \in BOOLEAN }

\* a route up to its first await: resolveUserId, then getCalendarClient or
\* getTasksClient sends findUnique
RouteArrival(route, req, body) ==
    LET userId == resolveUserId(req)
        status == IF userId = "throws" THEN 401
                  ELSE IF userId = "undefined" THEN 400
                  ELSE 0
    IN  [route |-> route, req |-> req, body |-> body, userId |-> userId,
         pc |-> IF status = 0 THEN "findToken" ELSE "responded",
         status |-> status,
         error |-> IF userId = "throws" THEN "Invalid token."
                   ELSE IF userId = "undefined" THEN "Missing userId."
                   ELSE "none",
         issued |-> NoTokens, listening |-> FALSE, calls |-> 0]

\* GET /events, overlapping with other executions of it
GetEventsRoute(req) ==
    /\ Len(requests) < Len(RequestIds)
    /\ requests' = Append(requests, RouteArrival("GET /events", req, "ok"))
    /\ UNCHANGED unhandled
    /\ UNCHANGED storeVars
    /\ UNCHANGED offBackendVars

\* any route of the router, one execution on its own
CalendarRoute(route, req, body) ==
    /\ requests = <<>>
    /\ requests' = <<RouteArrival(route, req, body)>>
    /\ UNCHANGED unhandled
    /\ UNCHANGED storeVars
    /\ UNCHANGED offBackendVars

\* mutant of ClientFor: a client is built whether or not a row was found
ClientFor_always(token) == "client"

\* getAuthorizedGoogleClient, lines 46-49: no row, no client
ClientFor(token) == IF token = NoCredential THEN "null" ELSE "client"

\* getAuthorizedGoogleClient after findUnique, and the route after it: no
\* client, 401; else the client has the row's tokens and the "tokens" listener,
\* and the route validates the body (400) and makes its provider call
getAuthorizedGoogleClient(k) ==
    /\ k \in 1..Len(requests)
    /\ requests[k].pc = "findToken"
    /\ requests' = [requests EXCEPT ![k] =
           IF ClientFor(credentials[requests[k].userId]) = "null"
               THEN [@ EXCEPT !.pc = "responded", !.status = 401,
                              !.error = "Google account not connected."]
           ELSE IF @.body = "invalid"
               THEN [@ EXCEPT !.pc = "responded", !.status = 400,
                              !.error = "Missing title or date.", !.listening = TRUE]
               ELSE [@ EXCEPT !.pc = "calling", !.listening = TRUE, !.calls = @ + 1]]
    /\ UNCHANGED unhandled
    /\ UNCHANGED storeVars
    /\ UNCHANGED offBackendVars

\* during the call the client refreshes its access token: the provider issues
\* tokens and the client emits "tokens". emit calls the async listener and does
\* not await the promise it returns: the listener runs up to the findUnique of
\* upsertGoogleTokens, and the call goes on.
TokensListener(k, tokens) ==
    /\ k \in 1..Len(requests)
    /\ requests[k].pc = "calling"
    /\ requests[k].listening
    /\ requests[k].issued = NoTokens
    /\ requests' = [requests EXCEPT ![k].issued = tokens]
    /\ IF Truthy(tokens.access_token) \/ Truthy(tokens.refresh_token)
          THEN upserts' = Append(upserts,
                                 NewUpsert(requests[k].userId, tokens, RequestIds[k]))
          ELSE UNCHANGED upserts
    /\ UNCHANGED <<credentials, storePhase, lastUpsert>>
    /\ UNCHANGED unhandled
    /\ UNCHANGED offBackendVars

\* the provider call of the route settles and the route answers: its success
\* status with the result, or 500 from the catch
ProviderCallSettles(k, ok) ==
    /\ k \in 1..Len(requests)
    /\ requests[k].pc = "calling"
    /\ requests' = [requests EXCEPT ![k].pc = "responded",
                       ![k].status = IF ok THEN SuccessStatus(requests[k].route) ELSE 500,
                       ![k].error = IF ok THEN "none" ELSE "Failed."]
    /\ UNCHANGED unhandled
    /\ UNCHANGED storeVars
    /\ UNCHANGED offBackendVars

\* prisma rejects the findUnique or the upsert of an upsertGoogleTokens call
\* (the database fails): nothing is written and the call's promise rejects. The
\* call was made by the listener, whose own promise rejects with it; emit
\* dropped that promise, so no handler sees the rejection.
UpsertRejected(k) ==
    /\ k \in 1..Len(upserts)
    /\ upserts[k].origin \in {RequestIds[n] : n \in DOMAIN RequestIds}
    /\ lastUpsert' = [outcome |-> "rejected", userId |-> upserts[k].userId,
                      tokens |-> upserts[k].tokens, existing |-> upserts[k].existing,
                      before |-> credentials]
    /\ upserts' = RemoveAt(upserts, k)
    /\ unhandled' = unhandled \cup {upserts[k].origin}
    /\ UNCHANGED <<credentials, storePhase, requests>>
    /\ UNCHANGED offBackendVars

\* the rows the store holds when requests arrive: each user is connected, with
\* the tokens of the first issue, or is not
InitBackend ==
    /\ \E connected \in SUBSET Users :
          credentials = [u \in Users |->
                            IF u \in connected
                                THEN UpsertedRow(u, buildTokenUpdate(NoCredential,
                                                                     FullResponse(1)))
                                ELSE NoCredential]
    /\ upserts = <<>>
    /\ storePhase = "off"
    /\ lastUpsert = NoUpsert
    /\ requests = <<>>
    /\ unhandled = {}

IdleBackend ==
    /\ requests = <<>>
    /\ unhandled = {}

NextBackend ==
    \/ \E bearer \in Bearers, query \in Queries :
          GetEventsRoute([bearer |-> bearer, query |-> query])
    \/ \E k \in DOMAIN requests : getAuthorizedGoogleClient(k)
    \/ \E k \in DOMAIN requests, tokens \in RefreshResponses : TokensListener(k, tokens)
    \/ \E k \in DOMAIN requests, ok \in BOOLEAN : ProviderCallSettles(k, ok)
    \/ \E k \in DOMAIN upserts : UpsertFind(k)
    \/ \E k \in DOMAIN upserts : UpsertWrite(k)

NextRoutes ==
    \/ \E route \in Routes, bearer \in Bearers, query \in Queries :
          \E body \in Bodies(route) :
              CalendarRoute(route, [bearer |-> bearer, query |-> query], body)
    \/ \E k \in DOMAIN requests : getAuthorizedGoogleClient(k)
    \/ \E k \in DOMAIN requests, tokens \in RefreshResponses : TokensListener(k, tokens)
    \/ \E k \in DOMAIN requests, ok \in BOOLEAN : ProviderCallSettles(k, ok)
    \/ \E k \in DOMAIN upserts : UpsertFind(k)
    \/ \E k \in DOMAIN upserts : UpsertWrite(k)
    \/ \E k \in DOMAIN upserts : UpsertRejected(k)

(***************************************************************************)
(* Backend: OAuth callback (GET /api/auth/google/callback) and status      *)
(***************************************************************************)
\* the executions of the callback route that may overlap
CallbackIds == <<"c1", "c2">>

\* the state query parameter of a callback (line 51): absent, not decodable,
\* or the encoding of { userId } for a user
OAuthStates == {"none", "malformed"} \cup Users

\* what getToken answers: tokens of an issue later than the stored one, with or
\* without an access token and a refresh token, and an id_token that is absent,
\* carries no email, or carries the email of a user. A user is known by their
\* email.
IdTokens == {"none", "noemail"} \cup Users
LaterIssues == Issues \ {1}

ExchangeReplies ==
    { [tokens |-> [access_token |-> Present(g, a), refresh_token |-> Present(g, r),
                   scope |-> g, token_type |-> g, expiry_date |-> g],
       id_token |-> t] : g \in LaterIssues, a \in BOOLEAN, r \in BOOLEAN, t \in IdTokens }

NewCallback(code, state) ==
    [code |-> code, state |-> state, pc |-> "exchange", status |-> 0, error |-> "none",
     tokens |-> NoTokens, id_token |-> "none", userinfo |-> "unasked",
     email |-> "none", user |-> "none",
     existing |-> NoCredential, update |-> [throws |-> FALSE], session |-> "none",
     trace |-> <<>>]

\* res.status(status).json({ error }): the route is over
Respond(c, status, error) == [c EXCEPT !.pc = "responded", !.status = status, !.error = error]

\* mutant of MissingCode: any request is taken to carry a code
MissingCode_never(code) == FALSE

\* typeof code !== "string"
MissingCode(code) == code = "none"

\* the route up to its first await: no code, 400; else getToken is sent
CallbackRoute(code, state) ==
    /\ Len(callbacks) < Len(CallbackIds)
    /\ callbacks' = Append(callbacks,
                           IF MissingCode(code)
                               THEN Respond(NewCallback(code, state), 400,
                                            "Missing OAuth code.")
                               ELSE NewCallback(code, state))
    /\ UNCHANGED <<userRows, storeVars>>
    /\ UNCHANGED offAuthVars

\* getToken settles (lines 58-81): it throws, or answers with tokens; with
\* neither access token nor id token the route answers 400; with an id token
\* verifyIdToken is sent, else userinfo.get
TokenExchanged(k, ok, reply) ==
    /\ k \in 1..Len(callbacks)
    /\ callbacks[k].pc = "exchange"
    /\ LET c == callbacks[k]
           got == [c EXCEPT !.tokens = reply.tokens, !.id_token = reply.id_token,
                            !.trace = Append(c.trace, "exchange")]
       IN  callbacks' = [callbacks EXCEPT ![k] =
               IF ~ok THEN Respond(c, 500, "Failed to complete Google OAuth.")
               ELSE IF ~Truthy(reply.tokens.access_token) /\ reply.id_token = "none"
                   THEN Respond(got, 400, "Google did not return an access token.")
               ELSE IF reply.id_token # "none"
                   THEN [got EXCEPT !.pc = "verify"]
                   ELSE [got EXCEPT !.pc = "userinfo"]]
    /\ UNCHANGED <<userRows, storeVars>>
    /\ UNCHANGED offAuthVars

\* the route once the email is known or is not (lines 91-106): without an
\* email, 400; else prisma.user.upsert is sent
EmailResolved(c, email) ==
    IF email = "none"
        THEN Respond(c, 400, "Could not retrieve email from Google.")
        ELSE [c EXCEPT !.email = email, !.pc = "user"]

\* verifyIdToken settles (lines 72-91): it throws, or the payload gives the
\* email or none; without an email and with an access token userinfo.get is sent
IdTokenVerified(k, ok) ==
    /\ k \in 1..Len(callbacks)
    /\ callbacks[k].pc = "verify"
    /\ LET c == callbacks[k]
           email == IF c.id_token \in Users THEN c.id_token ELSE "none"
           verified == [c EXCEPT !.trace = Append(c.trace, "verify")]
       IN  callbacks' = [callbacks EXCEPT ![k] =
               IF ~ok THEN Respond(c, 500, "Failed to complete Google OAuth.")
               ELSE IF email = "none" /\ Truthy(c.tokens.access_token)
                   THEN [verified EXCEPT !.pc = "userinfo"]
                   ELSE EmailResolved(verified, email)]
    /\ UNCHANGED <<userRows, storeVars>>
    /\ UNCHANGED offAuthVars

\* userinfo.get settles (lines 83-93): it throws, or answers an email or none
UserInfoAnswered(k, answer) ==
    /\ k \in 1..Len(callbacks)
    /\ callbacks[k].pc = "userinfo"
    /\ callbacks' = [callbacks EXCEPT ![k] =
           IF answer = "throws"
               THEN Respond(callbacks[k], 500, "Failed to complete Google OAuth.")
               ELSE EmailResolved([callbacks[k] EXCEPT
                                      !.userinfo = answer,
                                      !.trace = Append(callbacks[k].trace, "userinfo")],
                                  answer)]
    /\ UNCHANGED <<userRows, storeVars>>
    /\ UNCHANGED offAuthVars

\* mutant of CallbackUser: the userId of the state parameter, when it carries
\* one, names the user (as resolveUser would)
CallbackUser_fromState(c) == IF c.state \in Users THEN c.state ELSE c.email

\* the user of the callback: the row prisma.user.upsert finds or creates by
\* the email the provider returned (lines 99-106)
CallbackUser(c) == c.email

\* prisma.user.upsert resolves (lines 99-109): the user has a row, and
\* upsertGoogleTokens(user.id, tokens) sends its findUnique
UserUpserted(k) ==
    /\ k \in 1..Len(callbacks)
    /\ callbacks[k].pc = "user"
    /\ userRows' = userRows \cup {CallbackUser(callbacks[k])}
    /\ callbacks' = [callbacks EXCEPT ![k].user = CallbackUser(callbacks[k]),
                                      ![k].pc = "find",
                                      ![k].trace = Append(callbacks[k].trace, "user")]
    /\ UNCHANGED storeVars
    /\ UNCHANGED offAuthVars

\* upsertGoogleTokens of the callback, lines 32-33 of the service: findUnique
\* resolves and buildTokenUpdate runs; its throw reaches the route's catch
CallbackUpsertFind(k) ==
    /\ k \in 1..Len(callbacks)
    /\ callbacks[k].pc = "find"
    /\ LET c == callbacks[k]
           existing == credentials[c.user]
           update == buildTokenUpdate(existing, c.tokens)
       IN  IF update.throws
               THEN /\ callbacks' = [callbacks EXCEPT ![k] =
                           Respond(c, 500, "Failed to complete Google OAuth.")]
                    /\ lastUpsert' = [outcome |-> "threw", userId |-> c.user,
                                      tokens |-> c.tokens, existing |-> existing,
                                      before |-> credentials]
               ELSE /\ callbacks' = [callbacks EXCEPT ![k].pc = "write",
                                                      ![k].existing = existing,
                                                      ![k].update = update]
                    /\ UNCHANGED lastUpsert
    /\ UNCHANGED <<userRows, credentials, upserts, storePhase>>
    /\ UNCHANGED offAuthVars

\* upsertGoogleTokens of the callback, lines 35-42 of the service: the row is
\* written and the awaited call resolves
CallbackUpsertWrite(k) ==
    /\ k \in 1..Len(callbacks)
    /\ callbacks[k].pc = "write"
    /\ LET c == callbacks[k]
       IN  /\ credentials' = [credentials EXCEPT ![c.user] = UpsertedRow(c.user, c.update)]
           /\ lastUpsert' = [outcome |-> "written", userId |-> c.user,
                             tokens |-> c.tokens, existing |-> c.existing,
                             before |-> credentials]
           /\ callbacks' = [callbacks EXCEPT ![k].pc = "written",
                                             ![k].trace = Append(c.trace, "upsert")]
    /\ UNCHANGED <<userRows, upserts, storePhase>>
    /\ UNCHANGED offAuthVars

\* mutant of RedirectAfter: the route does not await upsertGoogleTokens
RedirectAfter_user == "find"

\* the position the route is at when it signs the session token: after the
\* awaited upsertGoogleTokens
RedirectAfter == "written"

\* jwt.sign({ userId: user.id }) and res.redirect (lines 111-117)
CallbackRedirect(k) ==
    /\ k \in 1..Len(callbacks)
    /\ callbacks[k].pc = RedirectAfter
    /\ callbacks' = [callbacks EXCEPT ![k].pc = "redirected", ![k].status = 302,
                                      ![k].session = callbacks[k].user,
                                      ![k].trace = Append(callbacks[k].trace, "session")]
    /\ UNCHANGED <<userRows, storeVars>>
    /\ UNCHANGED offAuthVars

\* GET /status?userId=u: { connected: Boolean(token) }
GoogleStatus(u) == [connected |-> credentials[u] # NoCredential]

\* the tables when callbacks arrive: each user has no row, a user row only, or
\* a user row and the tokens of the first issue
InitAuth ==
    /\ \E known \in SUBSET Users : \E connected \in SUBSET known :
          /\ userRows = known
          /\ credentials = [u \in Users |->
                               IF u \in connected
                                   THEN UpsertedRow(u, buildTokenUpdate(NoCredential,
                                                                        FullResponse(1)))
                                   ELSE NoCredential]
    /\ upserts = <<>>
    /\ storePhase = "off"
    /\ lastUpsert = NoUpsert
    /\ callbacks = <<>>

IdleAuth ==
    /\ callbacks = <<>>
    /\ userRows = {}

NextAuth ==
    \/ \E code \in {"none", "code"} : CallbackRoute(code, "none")
    \/ \E k \in DOMAIN callbacks, ok \in BOOLEAN, reply \in ExchangeReplies :
          TokenExchanged(k, ok, reply)
    \/ \E k \in DOMAIN callbacks, ok \in BOOLEAN : IdTokenVerified(k, ok)
    \/ \E k \in DOMAIN callbacks, answer \in {"throws", "none"} \cup Users :
          UserInfoAnswered(k, answer)
    \/ \E k \in DOMAIN callbacks : UserUpserted(k)
    \/ \E k \in DOMAIN callbacks : CallbackUpsertFind(k)
    \/ \E k \in DOMAIN callbacks : CallbackUpsertWrite(k)
    \/ \E k \in DOMAIN callbacks : CallbackRedirect(k)

\* the tables when the callback of a linking flow arrives: both users have
\* signed up, none has connected Google yet
InitLink ==
    /\ userRows = Users
    /\ credentials = [u \in Users |-> NoCredential]
    /\ upserts = <<>>
    /\ storePhase = "off"
    /\ lastUpsert = NoUpsert
    /\ callbacks = <<>>

\* callbacks that carry a code and any state parameter
NextLink ==
    \/ \E state \in OAuthStates : CallbackRoute("code", state)
    \/ \E k \in DOMAIN callbacks, ok \in BOOLEAN, reply \in ExchangeReplies :
          TokenExchanged(k, ok, reply)
    \/ \E k \in DOMAIN callbacks, ok \in BOOLEAN : IdTokenVerified(k, ok)
    \/ \E k \in DOMAIN callbacks, answer \in {"throws", "none"} \cup Users :
          UserInfoAnswered(k, answer)
    \/ \E k \in DOMAIN callbacks : UserUpserted(k)
    \/ \E k \in DOMAIN callbacks : CallbackUpsertFind(k)
    \/ \E k \in DOMAIN callbacks : CallbackUpsertWrite(k)
    \/ \E k \in DOMAIN callbacks : CallbackRedirect(k)

(***************************************************************************)
(* Specifications                                                          *)
(***************************************************************************)
InitBoardSpec ==
    /\ InitBoard
    /\ IdleStore
    /\ IdleCalendar
    /\ IdleBackend
    /\ IdleAuth

InitStoreSpec ==
    /\ InitStore
    /\ IdleBoard
    /\ IdleCalendar
    /\ IdleBackend
    /\ IdleAuth

InitCalendarSpec ==
    /\ InitCalendar
    /\ IdleBoard
    /\ IdleStore
    /\ IdleBackend
    /\ IdleAuth

InitBackendSpec ==
    /\ InitBackend
    /\ IdleBoard
    /\ IdleCalendar
    /\ IdleAuth

InitRoutesSpec ==
    /\ InitBackend
    /\ IdleBoard
    /\ IdleCalendar
    /\ IdleAuth

InitAuthSpec ==
    /\ InitAuth
    /\ IdleBoard
    /\ IdleCalendar
    /\ IdleBackend

InitLinkSpec ==
    /\ InitLink
    /\ IdleBoard
    /\ IdleCalendar
    /\ IdleBackend

SpecBoard == InitBoardSpec /\ [][NextBoard]_vars

SpecStore == InitStoreSpec /\ [][NextStore]_vars

SpecCalendar == InitCalendarSpec /\ [][NextCalendar]_vars

SpecBackend == InitBackendSpec /\ [][NextBackend]_vars

SpecRoutes == InitRoutesSpec /\ [][NextRoutes]_vars

SpecAuth == InitAuthSpec /\ [][NextAuth]_vars

SpecLink == InitLinkSpec /\ [][NextLink]_vars

(***************************************************************************)
(* Credential store: properties                                            *)
(***************************************************************************)
CredentialFields ==
    { <<"accessToken", "access_token">>, <<"refreshToken", "refresh_token">>,
      <<"scope", "scope">>, <<"tokenType", "token_type">>,
      <<"expiryDate", "expiry_date">> }

\* C4: upsert merges a token response into the stored Credential field by
\* field: every field present in the response overwrites the stored value and
\* every field absent from it keeps the value stored before (none when there
\* was no Credential); so a response carrying only a new access token leaves
\* the stored refresh token in place.
C4_UpsertMergesFieldByField ==
    lastUpsert.outcome = "written" =>
        LET u == lastUpsert.userId
            old == lastUpsert.before[u]
        IN  /\ credentials[u] # NoCredential
            /\ credentials[u].userId = u
            /\ \A f \in CredentialFields :
                   credentials[u][f[1]] =
                       IF lastUpsert.tokens[f[2]] # Absent
                           THEN lastUpsert.tokens[f[2]]
                           ELSE IF old = NoCredential THEN Absent ELSE old[f[1]]

\* the refresh scenario: stored refresh token 1, response with access token 2 only
C4_Witness ==
    /\ lastUpsert.outcome = "written"
    /\ lastUpsert.tokens = [access_token |-> 2, refresh_token |-> Absent,
                            scope |-> Absent, token_type |-> Absent,
                            expiry_date |-> Absent]
    /\ lastUpsert.before[lastUpsert.userId] # NoCredential
    /\ lastUpsert.before[lastUpsert.userId].accessToken = 1
    /\ lastUpsert.before[lastUpsert.userId].refreshToken = 1
    /\ credentials[lastUpsert.userId].accessToken = 2
    /\ credentials[lastUpsert.userId].refreshToken = 1

\* C5: whenever neither the token response nor a stored Credential supplies
\* an access token, upsert fails and writes nothing: every user's stored
\* Credential is as before and no Credential is created.
C5_UpsertRejectsUnusable ==
    (/\ lastUpsert # NoUpsert
     /\ lastUpsert.tokens.access_token = Absent
     /\ lastUpsert.before[lastUpsert.userId] = NoCredential)
        => /\ lastUpsert.outcome = "threw"
           /\ credentials = lastUpsert.before
           /\ credentials[lastUpsert.userId] = NoCredential

\* a response with a refresh token but no access token, on an empty store, was rejected
C5_Witness ==
    /\ lastUpsert.outcome = "threw"
    /\ lastUpsert.tokens.refresh_token # Absent
    /\ credentials["u1"] = NoCredential

\* C20: upsert is idempotent: after upsert(userId, tokens) has been called a
\* second time with the same input, every stored Credential is the one stored
\* after the first call.
C20_UpsertIdempotent ==
    (storePhase = "again" /\ upserts = <<>>) =>
        /\ lastUpsert # NoUpsert
        /\ credentials = lastUpsert.before

\* the second of two identical calls has written: the first call had merged a
\* response without refresh token into a row with other tokens
C20_Witness ==
    /\ storePhase = "again"
    /\ upserts = <<>>
    /\ lastUpsert.outcome = "written"
    /\ lastUpsert.tokens.refresh_token = Absent
    /\ lastUpsert.tokens.access_token # Absent
    /\ lastUpsert.existing.accessToken = lastUpsert.tokens.access_token
    /\ lastUpsert.existing.refreshToken # Absent
    /\ lastUpsert.existing.refreshToken # lastUpsert.tokens.access_token

(***************************************************************************)
(* Board: properties                                                       *)
(***************************************************************************)

\* C1: when the remote status mutation of a Google task fails, the override of
\* that task is replaced with the status captured before the mutation (it is
\* not cleared), so the status the board shows for the task equals the status
\* it showed before the user action, and exactly one error toast is raised.
C1_FailedMoveRestoresStatus ==
    lastEvent.type = "moveFailed" =>
        /\ googleTaskOverrides[lastEvent.item] = lastEvent.previousStatus
        /\ googleTaskOverrides[lastEvent.item] # NoOverride
        /\ Visible(lastEvent.item) = lastEvent.visibleBefore
        /\ toasts = lastEvent.toastsBefore + 1

\* a move of a task shown as inProgress over a fetched "todo" has just failed
C1_Witness ==
    /\ lastEvent.type = "moveFailed"
    /\ lastEvent.visibleBefore = "inProgress"
    /\ googleTasks[lastEvent.item] = "todo"

\* C2: after a successful done/todo status mutation the override is cleared
\* only once the re-fetch triggered by that success has delivered its result:
\* while that re-fetch is in flight (and the user has made no newer status
\* change on the task) the board shows the status the user chose.
C2_OverrideHeldUntilRefetchLands ==
    \A k \in 1..Len(fetches) :
        (fetches[k].cause # NoCause /\ googleTasks[fetches[k].cause.item] # NotListed)
            => Visible(fetches[k].cause.item) = fetches[k].cause.status

\* C3: after a successful move of a Google task to inProgress the board keeps
\* showing inProgress for it, whatever re-fetches deliver, until the user's
\* next status action on that task.
C3_InProgressStays ==
    \A i \in Items :
        (pinned[i] /\ googleTasks[i] # NotListed) => Visible(i) = "inProgress"

\* C14: when a fetch of the tasks fails, the tasks the last successful fetch
\* delivered stay the displayed ones, and the error is reported with them.
C14_FailedFetchKeepsItems ==
    [][(\E k \in DOMAIN fetches :
            fetches[k].pc = "failed"
            /\ fetches' = RemoveAt(Overtaken(fetches, k), k))
         => (googleTasks' = googleTasks /\ tasksError')]_vars

\* C18: a failed delete of a Google task leaves it intact and visible: neither
\* the attempt, nor the failure at the route, nor the handling of the failure
\* changes the displayed list or an override (or, at the route, the provider's
\* task), and the handling raises one error toast.
C18_FailedDeleteLeavesItem ==
    [][LET started == Len(deletes') = Len(deletes) + 1
           failedAtRoute == /\ Len(deletes') = Len(deletes)
                            /\ \E k \in DOMAIN deletes :
                                  deletes[k].pc = "sent" /\ deletes'[k].pc = "failed"
           failedLanded == \E k \in DOMAIN deletes :
                              deletes[k].pc = "failed" /\ deletes' = RemoveAt(deletes, k)
       IN  /\ (started \/ failedAtRoute \/ failedLanded) =>
                  /\ googleTasks' = googleTasks
                  /\ googleTaskOverrides' = googleTaskOverrides
           /\ failedAtRoute => remote' = remote
           /\ failedLanded => toasts' = toasts + 1]_vars

\* the delete of a listed task has just failed: the task is still listed, with
\* the status it has at the provider, and a toast was raised
C18_Witness ==
    /\ lastEvent.type = "deleteFailed"
    /\ googleTasks[lastEvent.item] # NotListed
    /\ Visible(lastEvent.item) = mapGoogleTaskToTask(remote[lastEvent.item])
    /\ toasts = 1

\* a status mutation of item i is in flight
MoveInFlight(i) == \E k \in DOMAIN moves : moves[k].item = i

\* C21: the override map holds an entry for an item only if a status mutation
\* of the item is in flight or the mutation of it that settled last failed;
\* and once a mutation of the item has succeeded and every re-fetch has landed
\* with success, the map holds no entry for it, listed or deleted.
C21_OverrideOnlyWhilePendingOrFailed ==
    \A i \in Items :
        /\ googleTaskOverrides[i] # NoOverride =>
               (MoveInFlight(i) \/ settled[i] = "failed")
        /\ (/\ settled[i] = "succeeded"
            /\ ~MoveInFlight(i)
            /\ fetches = <<>>
            /\ ~tasksError) => googleTaskOverrides[i] = NoOverride

\* C22: a status change on a listed Google task writes the chosen status into
\* the override map before the PATCH is issued, and for as long as the PATCH of
\* the user's latest change on the task is unanswered the board shows the
\* chosen status for the task.
C22_PendingStatusShownWhileInFlight ==
    \A k \in DOMAIN moves :
        (/\ moves[k].latest
         /\ moves[k].pc = "sent"
         /\ googleTasks[moves[k].item] # NotListed) =>
            /\ googleTaskOverrides[moves[k].item] = moves[k].status
            /\ Visible(moves[k].item) = moves[k].status

\* C23: when the mutation of the user's latest status action on a Google task
\* has succeeded, then once every mutation of the task has settled (whatever
\* the outcome and completion order of the earlier ones) and the re-fetches
\* have landed, the board shows the status that latest action chose.
C23_LatestActionWins ==
    \A i \in Items :
        (/\ chosen[i] # "none"
         /\ ~MoveInFlight(i)
         /\ fetches = <<>>
         /\ deletes = <<>>
         /\ ~tasksError
         /\ googleTasks[i] # NotListed) => Visible(i) = chosen[i]

C25_OnlyRemoteStatusesSent ==
    /\ \A k \in DOMAIN moves :
          /\ moves[k].body \in RemoteStatus
          /\ moves[k].body = IF moves[k].status = "done" THEN "completed"
                             ELSE "needsAction"
          /\ moves[k].pc = "ok" => remote[moves[k].item] \in RemoteStatus \cup {"deleted"}
    /\ \A s \in ReceivedStatus :
          normalizedStatus(s) = IF s = "completed" THEN "completed" ELSE "needsAction"
    /\ \A i \in Items : remote[i] \in RemoteStatus \cup {"deleted"}

\* the PATCH of a move to inProgress of a task fetched as done has been applied:
\* the provider holds needsAction for it
C25_Witness ==
    \E k \in DOMAIN moves :
        /\ moves[k].status = "inProgress"
        /\ moves[k].pc = "ok"
        /\ googleTasks[moves[k].item] = "done"
        /\ remote[moves[k].item] = "needsAction"
        /\ googleTaskOverrides[moves[k].item] = "inProgress"

\* C30: when several fetches of the task list are in flight at once, the
\* response of a fetch that arrives after the response of a fetch issued later
\* does not replace the displayed list: the list stays the result of the most
\* recently issued fetch that has landed.
C30_StaleFetchDoesNotOverwrite ==
    [][\A k \in DOMAIN fetches :
          (/\ fetches[k].overtaken
           /\ fetches[k].pc \in {"ok", "failed"}
           /\ fetches' = RemoveAt(Overtaken(fetches, k), k))
          => googleTasks' = googleTasks]_vars

(***************************************************************************)
(* Properties of the calendar hook (SpecCalendar)                          *)
(***************************************************************************)

C8_DedupKeepsEveryTask ==
    (eventsFetch = "landed" /\ lastFetch = [events |-> "ok", tasks |-> "ok"]) =>
        SelectSeq(events, LAMBDA x : x.source = "google-task")
            = MappedTasks(providerTasks)

\* two tasks with the same date and the same title, and an event mirroring
\* them: both tasks are left, the event is not
C8_Witness ==
    /\ eventsFetch = "landed"
    /\ lastFetch = [events |-> "ok", tasks |-> "ok"]
    /\ Len(providerTasks) = 2
    /\ providerTasks[1].title = providerTasks[2].title
    /\ providerTasks[1].due = providerTasks[2].due
    /\ Len(providerEvents) = 1
    /\ Len(events) = 2
    /\ events[1].source = "google-task"
    /\ events[2].source = "google-task"
    /\ events[1].id # events[2].id

\* C9: an all-day event with start date S and exclusive end date E is mapped to
\* start = start of day S and end = end of day E - 1, and the calendar cell of
\* a day d shows it exactly when S <= d <= E - 1: on its last day E - 1, not on
\* day E. (An event that deduplication removed is shown on no day.)
C9_AllDayEventSpansInclusiveDays ==
    (eventsFetch = "landed" /\ lastFetch.events = "ok") =>
        \A k \in DOMAIN providerEvents :
            LET raw == providerEvents[k]
                S == raw.start.date.day
                E == raw.end.date.day
                shown(d) == \E j \in DOMAIN getEventsForDate(events, d) :
                               getEventsForDate(events, d)[j].id = raw.id
            IN  (/\ raw.start.dateTime = NoValue /\ raw.start.date # NoValue
                 /\ raw.end.dateTime = NoValue /\ raw.end.date # NoValue)
                => \A j \in DOMAIN events :
                      events[j].id = raw.id =>
                          /\ events[j].start = S * TicksPerDay - tz
                          /\ events[j].end = (E - 1) * TicksPerDay - tz + TicksPerDay - 1
                          /\ \A d \in 0..(MaxDay + 3) :
                                shown(d) <=> (S <= d /\ d <= E - 1)

\* an all-day event of two days in a browser away from UTC, shown on its
\* second day and not on the day after
C9_Witness ==
    /\ eventsFetch = "landed"
    /\ lastFetch.events = "ok"
    /\ tz # 0
    /\ Len(providerEvents) = 1
    /\ providerEvents[1].start.date = DateOnly(1)
    /\ providerEvents[1].end.date = DateOnly(3)
    /\ Len(events) = 1
    /\ Len(getEventsForDate(events, 2)) = 1
    /\ Len(getEventsForDate(events, 3)) = 0

\* C10: a task whose due value is a bare date, or the provider's encoding of a
\* date as the timestamp of midnight UTC (T00:00:00Z or T00:00:00.000Z), maps
\* to the whole of that calendar date, start of day to end of day; a due value
\* that is any other timestamp maps to that instant, start = end. Both hooks
\* (getTaskDateRange and parseTaskDueDate) compute the same range.
C10_TaskDueRange ==
    (eventsFetch = "landed" /\ lastFetch = [events |-> "ok", tasks |-> "ok"]) =>
        \A k \in DOMAIN providerTasks :
            LET due == providerTasks[k].due
                wholeDay == \/ due.kind = "date"
                            \/ /\ due.kind = "dateTime"
                               /\ due.tick = 0
                               /\ due.zone = "Z"
                expected ==
                    IF wholeDay
                        THEN [start |-> due.day * TicksPerDay - tz,
                              end |-> due.day * TicksPerDay - tz + TicksPerDay - 1]
                        ELSE [start |-> due.day * TicksPerDay + due.tick
                                            - ZoneOffset(due.zone),
                              end |-> due.day * TicksPerDay + due.tick
                                          - ZoneOffset(due.zone)]
            IN  due # NoValue =>
                   /\ \E j \in DOMAIN events :
                         /\ events[j].id = "task-" \o providerTasks[k].id
                         /\ events[j].source = "google-task"
                         /\ events[j].start = expected.start
                         /\ events[j].end = expected.end
                   /\ parseTaskDueDate(due) = expected

\* a task due on a date the provider sent as midnight UTC, in a browser away
\* from UTC: its item spans the whole local day
C10_Witness ==
    /\ eventsFetch = "landed"
    /\ lastFetch = [events |-> "ok", tasks |-> "ok"]
    /\ tz # 0
    /\ Len(providerTasks) = 1
    /\ providerTasks[1].due = DateTime(1, 0, ".000", "Z")
    /\ Len(events) = 1
    /\ events[1].start = TicksPerDay - tz
    /\ events[1].end = events[1].start + TicksPerDay - 1

\* C11: the calendar cell of a day and the upcoming-events list include an
\* item exactly when item.start <= windowEnd and item.end >= windowStart
\* (overlap, not containment): an item spanning days D..D+2 is in the cell of
\* day D+1, and an item that ends before the window starts or starts after it
\* ends is left out.
C11_WindowOverlap ==
    eventsFetch = "landed" =>
        \A j \in DOMAIN events :
            LET item == events[j]
                inCell(d) == \E n \in DOMAIN getEventsForDate(events, d) :
                                getEventsForDate(events, d)[n].id = item.id
                inUpcoming(now) == \E n \in DOMAIN upcomingEvents(events, now) :
                                      upcomingEvents(events, now)[n].id = item.id
            IN  /\ \A d \in 0..(MaxDay + 3) :
                      inCell(d) <=> /\ item.start <= d * TicksPerDay - tz + TicksPerDay - 1
                                    /\ item.end >= d * TicksPerDay - tz
                /\ \A now \in (0 - (UpcomingDays + 2) * TicksPerDay)
                                ..((MaxDay + 3) * TicksPerDay) :
                      inUpcoming(now) <=>
                          /\ item.start <= ((now + UpcomingDays * TicksPerDay + tz)
                                               \div TicksPerDay) * TicksPerDay
                                             - tz + TicksPerDay - 1
                          /\ item.end >= now

\* an all-day event of days 1 to 3: in the cell of day 2, not in the cell of
\* day 4, in the upcoming list of an instant of day 2 and not in that of an
\* instant more than eight days before it starts
C11_Witness ==
    /\ eventsFetch = "landed"
    /\ Len(events) = 1
    /\ events[1].start = TicksPerDay - tz
    /\ events[1].end = 3 * TicksPerDay - tz + TicksPerDay - 1
    /\ Len(getEventsForDate(events, 2)) = 1
    /\ Len(getEventsForDate(events, 4)) = 0
    /\ Len(upcomingEvents(events, 2 * TicksPerDay)) = 1
    /\ Len(upcomingEvents(events, 0 - (UpcomingDays + 1) * TicksPerDay)) = 0

\* C12: a failure of the tasks fetch (an error response of the tasks endpoint,
\* or the tasks request itself failing) does not fail the events fetch: the
\* hook then holds every event-sourced item, no task item, and no error.
C12_TasksFailureKeepsEvents ==
    (/\ eventsFetch = "landed"
     /\ lastFetch.events = "ok"
     /\ lastFetch.tasks \in {"error", "rejected"})
    => /\ events = MappedEvents(providerEvents)
       /\ ~eventsError

\* C13: a failure of the events fetch does not fail the tasks fetch: when the
\* events endpoint fails and the tasks endpoint succeeds, the hook still holds
\* every task-sourced item.
C13_EventsFailureKeepsTasks ==
    (/\ eventsFetch = "landed"
     /\ lastFetch.events \in {"error", "rejected"}
     /\ lastFetch.tasks = "ok")
    => SelectSeq(events, LAMBDA x : x.source = "google-task")
           = MappedTasks(providerTasks)

(***************************************************************************)
(* Properties of the OAuth callback (SpecAuth)                             *)
(***************************************************************************)

\* C15: a callback without an authorization code, or whose token exchange
\* answered neither an access token nor an id token, or for which no email
\* could be resolved (none in the id token, and no access token to ask
\* userinfo with or none in its answer), has ended with a 400 JSON error: it
\* has upserted no user and no credential and has issued no session token.
C15_IncompleteCallbackIsTerminal ==
    \A k \in DOMAIN callbacks :
        LET c == callbacks[k]
            did(step) == \E n \in DOMAIN c.trace : c.trace[n] = step
            noCode == c.code = "none"
            noToken == /\ did("exchange")
                       /\ c.tokens.access_token = Absent
                       /\ c.id_token = "none"
            noEmail == /\ did("exchange")
                       /\ c.id_token \notin Users
                       /\ \/ did("verify") /\ c.tokens.access_token = Absent
                          \/ c.userinfo = "none"
        IN  (noCode \/ noToken \/ noEmail) =>
                /\ c.pc = "responded"
                /\ c.status = 400
                /\ c.error # "none"
                /\ c.session = "none"
                /\ ~did("user") /\ ~did("upsert") /\ ~did("session")

\* two callbacks have ended with 400: one whose id token and userinfo gave no
\* email, one whose exchange answered a refresh token only; nothing was upserted
C15_Witness ==
    /\ Len(callbacks) = 2
    /\ callbacks[1].pc = "responded"
    /\ callbacks[1].status = 400
    /\ callbacks[1].trace = <<"exchange", "verify", "userinfo">>
    /\ callbacks[1].userinfo = "none"
    /\ callbacks[2].pc = "responded"
    /\ callbacks[2].status = 400
    /\ callbacks[2].trace = <<"exchange">>
    /\ callbacks[2].tokens.refresh_token # Absent
    /\ lastUpsert = NoUpsert

\* C16: a callback signs the session token and redirects only after the token
\* exchange, then the identity resolution, then the user's row, then the
\* credential upsert for that user have succeeded, in that order; and the
\* status of the user a callback has redirected for reports connected.
C16_SessionAfterCredential ==
    \A k \in DOMAIN callbacks :
        LET c == callbacks[k]
            t == c.trace
            n == Len(t)
        IN  (c.session # "none" \/ c.pc = "redirected" \/ c.status = 302) =>
                /\ c.pc = "redirected"
                /\ c.status = 302
                /\ c.session \in Users
                /\ c.session = c.email
                /\ n >= 5
                /\ t[1] = "exchange"
                /\ \A m \in 2..(n - 3) : t[m] \in {"verify", "userinfo"}
                /\ t[n - 2] = "user"
                /\ t[n - 1] = "upsert"
                /\ t[n] = "session"
                /\ c.session \in userRows
                /\ GoogleStatus(c.session).connected

\* a callback has redirected for a user that had no credential: the email came
\* from userinfo and the stored row holds the exchanged access token
C16_Witness ==
    \E k \in DOMAIN callbacks :
        /\ callbacks[k].pc = "redirected"
        /\ callbacks[k].trace = <<"exchange", "verify", "userinfo", "user", "upsert", "session">>
        /\ callbacks[k].existing = NoCredential
        /\ credentials[callbacks[k].session].accessToken = callbacks[k].tokens.access_token

\* C26: the user for whom the callback stores the credential and signs the
\* session token is determined by the email the provider returned and by
\* nothing else: whatever the state parameter carries, the user is the one of
\* that email, and two callbacks that differ in the state parameter only (same
\* email, same tokens, same row read) write the same credential for the same
\* user and sign a session for the same user.
C26_StateDoesNotSelectUser ==
    /\ \A k \in DOMAIN callbacks :
          LET c == callbacks[k]
          IN  /\ c.user # "none" => c.user = c.email
              /\ c.session # "none" => c.session = c.email
    /\ \A a, b \in DOMAIN callbacks :
          LET ca == callbacks[a]
              cb == callbacks[b]
              wrote(c) == c.pc \in {"written", "redirected"}
          IN  (ca.email = cb.email /\ ca.email # "none") =>
                  /\ (ca.user # "none" /\ cb.user # "none") => ca.user = cb.user
                  /\ (ca.session # "none" /\ cb.session # "none") =>
                         ca.session = cb.session
                  /\ (/\ wrote(ca) /\ wrote(cb)
                      /\ ca.tokens = cb.tokens
                      /\ ca.existing = cb.existing) =>
                         UpsertedRow(ca.user, ca.update) = UpsertedRow(cb.user, cb.update)

\* two callbacks for the same email have redirected with a session, one whose
\* state carried the id of the other user and one without a state
C26_Witness ==
    \E a, b \in DOMAIN callbacks :
        /\ callbacks[a].state \in Users
        /\ callbacks[a].state # callbacks[a].email
        /\ callbacks[b].state = "none"
        /\ callbacks[a].email = callbacks[b].email
        /\ callbacks[a].pc = "redirected"
        /\ callbacks[b].pc = "redirected"
        /\ callbacks[a].session = callbacks[a].email
        /\ credentials[callbacks[a].email] # NoCredential
        /\ credentials[callbacks[a].state] = NoCredential

\* upsertGoogleTokens(userId, tokens) run alone on a stored row: the row it
\* leaves (the row itself when buildTokenUpdate throws)
UpsertApplied(row, userId, tokens) ==
    LET update == buildTokenUpdate(row, tokens)
    IN  IF update.throws THEN row ELSE UpsertedRow(userId, update)

\* C27: two upserts for the same user that run concurrently leave the stored
\* credential equal to the result of applying the two one after the other in
\* some order, starting from the row the first of them read; a refresh token
\* newly written by one is not replaced by the older stored one.
C27_ConcurrentUpsertsSerializable ==
    \A a, b \in DOMAIN callbacks :
        LET ca == callbacks[a]
            cb == callbacks[b]
            u == ca.user
            wrote(c) == c.pc \in {"written", "redirected"}
        IN  (a # b /\ wrote(ca) /\ wrote(cb) /\ ca.user = cb.user) =>
                \E before \in {ca.existing, cb.existing} :
                    credentials[u] \in
                        { UpsertApplied(UpsertApplied(before, u, ca.tokens), u, cb.tokens),
                          UpsertApplied(UpsertApplied(before, u, cb.tokens), u, ca.tokens) }

\* C28: a callback that has ended in an error response (400 or 500) has left
\* the tables as they were: it has created or updated no user row and has
\* written no credential.
C28_FailedCallbackWritesNothing ==
    \A k \in DOMAIN callbacks :
        LET c == callbacks[k]
            did(step) == \E n \in DOMAIN c.trace : c.trace[n] = step
        IN  (c.pc = "responded" /\ c.status \in {400, 500}) =>
                /\ ~did("user")
                /\ ~did("upsert")
                /\ c.user = "none"

(***************************************************************************)
(* Properties of the routes taken one at a time (SpecRoutes)               *)
(***************************************************************************)

\* C17: for a user with no stored credential the factory returns no client,
\* and every calendar and task route answers 401 "not connected": it makes no
\* provider call, then or later, registers no listener, starts no upsert, and
\* the user still has no credential.
C17_NotConnectedIsUnauthenticated ==
    \A k \in DOMAIN requests :
        LET r == requests[k]
        IN  (r.userId \in Users /\ credentials[r.userId] = NoCredential) =>
                /\ r.pc \in {"findToken", "responded"}
                /\ r.calls = 0
                /\ ~r.listening
                /\ r.issued = NoTokens
                /\ \A j \in DOMAIN upserts : upserts[j].userId # r.userId
                /\ r.pc = "responded" =>
                      /\ r.status = 401
                      /\ r.error = "Google account not connected."

\* the update-task route has answered 401 to a user without credential, named
\* by the query parameter, while the other user is connected
C17_Witness ==
    /\ Len(requests) = 1
    /\ requests[1].route = "PATCH /tasks/:taskId"
    /\ requests[1].req = [bearer |-> "none", query |-> "u1"]
    /\ requests[1].pc = "responded"
    /\ requests[1].status = 401
    /\ credentials["u1"] = NoCredential
    /\ credentials["u2"] # NoCredential

\* C19: every failure in this subsystem is caught and turned into an error
\* outcome: no failure, that of the listener's write to the store included,
\* leaves a promise rejected with no handler.
C19_NoUnhandledRejection == unhandled = {}

\* C29: the credential a calendar or task route loads and calls the provider
\* with is that of the user named by a valid session token the request
\* carries: a userId query parameter never selects the credential, and a
\* request with an invalid token is answered 401 with no credential loaded and
\* no provider call made.
C29_CredentialOfSessionUser ==
    \A k \in DOMAIN requests :
        LET r == requests[k]
            loaded == r.pc \in {"findToken", "calling"} \/ r.listening \/ r.calls > 0
                      \/ r.error = "Google account not connected."
        IN  /\ loaded => (r.req.bearer \in Users /\ r.userId = r.req.bearer)
            /\ r.req.bearer = "invalid" =>
                   /\ r.pc = "responded"
                   /\ r.status = 401
                   /\ ~r.listening
                   /\ r.calls = 0

(***************************************************************************)
(* Properties of the backend (SpecBackend)                                 *)
(***************************************************************************)

\* C6: when a provider call made through a client of the factory made the
\* provider issue new tokens, the listener's write of them to the store is
\* over before the route has the call's result: no request has been answered
\* while the upsert its call started is still in flight.
C6_RefreshStoredBeforeCallReturns ==
    \A k \in DOMAIN requests :
        (/\ requests[k].pc = "responded"
         /\ requests[k].status = 200
         /\ requests[k].issued # NoTokens)
        => \A j \in DOMAIN upserts : upserts[j].origin # RequestIds[k]

====
